---- MODULE Spec2Model ----
(***************************************************************************)
(* A model of mpd-mqtt-yag.py: the MPD connection pool (MpdClientPool),    *)
(* the change-tracking snapshot (ObservedDict), the watcher loop           *)
(* (MpdHandler.watch) and the command handlers of MpdHandler that the     *)
(* MQTT network thread runs concurrently with the watcher.                 *)
(*                                                                         *)
(* Two execution contexts share the pool: "watcher" is the main thread     *)
(* (main() and then MpdHandler.watch), "command" is the MQTT client's      *)
(* network thread (loop_start) running the message callbacks.  A step of   *)
(* the model is one access to shared state (the deque, the backend) with   *)
(* the thread-local statements around it.                                  *)
(*                                                                         *)
(* Python values are modelled as strings (python-mpd2 reports every        *)
(* attribute as a string); the integer 0 is written "int:0".               *)
(***************************************************************************)
EXTENDS Integers, Sequences, FiniteSets, TLC

VARIABLES
    mode,          \* how the MPD backend behaves in this run
    clients,       \* MpdClientPool.clients: the deque of idle connections
    closed,        \* disconnected MPDClient objects that are still referenced
    faults,        \* backend failures so far in a "flaky" run
    idleFlags,     \* connections for which MPD holds an unreported change
    mpdStatus,     \* MPD's player status, as status() reports it
    mpdSong,       \* MPD's current song, as currentsong() reports it
    pc,            \* each context's position in the code
    site,          \* each context's caller of acquire()
    client,        \* each context's local client / mpd_client
    tries,         \* each context's local tries in acquire()
    attempts,      \* candidates obtained in the current acquire() call
    probed,        \* the connection whose ping() succeeded in this call
    exc,           \* the exception propagating in each context
    reply,         \* the watcher's local st_py / song_py
    cmd,           \* the command the command context is executing
    payload,       \* the payload of the volume command
    cmdCount,      \* commands delivered so far
    favNeedle,     \* MpdHandler.fav_needle is configured
    status,        \* MpdHandler.status (ObservedDict): the stored items
    statusChanges, \* MpdHandler.status.changes
    song,          \* MpdHandler.song (ObservedDict): the stored items
    songChanges,   \* MpdHandler.song.changes
    drained,       \* the result of the latest get_changes() on status
    written,       \* since the latest drain: the keys a write changed, and
                   \* the keys written over a falsy value
    expected,      \* written, as it was at the latest drain
    songDrained,   \* the result of the latest get_changes() on song
    songNoted,     \* as expected, for the latest drain of song
    emitted,       \* events the latest _check_updates pass emitted
    waited,        \* watch() has reached its first acquire() for idle()
    published,     \* what the latest query command emitted
    issued,        \* backend calls the current command has issued
    outcome        \* how the latest command ended

poolVars == <<mode, clients, closed, faults, idleFlags>>
backendVars == <<mpdStatus, mpdSong>>
ctxVars == <<pc, site, client, tries, attempts, probed, exc, reply>>
cmdVars == <<cmd, payload, cmdCount, favNeedle>>
snapVars == <<status, statusChanges, song, songChanges, drained, written, expected,
             songDrained, songNoted, emitted>>
obsVars == <<waited, published, issued, outcome>>
vars == <<poolVars, backendVars, ctxVars, cmdVars, snapVars, obsVars>>

(***************************************************************************)
(* Bounds of the model.                                                    *)
(***************************************************************************)
MaxConns == 4      \* MPDClient objects that can exist at once
MaxCmds == 1       \* commands the bus delivers in one run
MaxFaults == 1     \* backend failures in one "flaky" run
MaxStale == 3      \* idle connections in the pool when acquire() is tried alone

(***************************************************************************)
(* Program constants.                                                      *)
(***************************************************************************)
None == 0          \* Python's None, where a connection is expected
Tries == 10        \* tries = 10
Timeout == 5       \* timeout = 5

Procs == {"watcher", "command"}
Conns == 1..MaxConns

Range(s) == {s[i] : i \in 1..Len(s)}
Empty == <<>>      \* the empty mapping {} (a function with no key)

(***************************************************************************)
(* The backend.  "healthy": every call succeeds.  "flaky": any call may    *)
(* fail, MaxFaults times in a run.  "down_connect": connect() is refused   *)
(* and every pooled connection is broken.  "down_probe": connect()         *)
(* succeeds and every ping() fails.                                        *)
(***************************************************************************)
Modes == {"healthy", "flaky", "down_connect", "down_probe"}
MayFail == IF mode = "flaky" /\ faults < MaxFaults THEN BOOLEAN ELSE {TRUE}
ConnectOutcomes == IF mode = "down_connect" THEN {FALSE}
                   ELSE IF mode = "down_probe" THEN {TRUE} ELSE MayFail
PingOutcomes == IF mode \in {"down_connect", "down_probe"} THEN {FALSE} ELSE MayFail
CallOutcomes == IF mode \in {"down_connect", "down_probe"} THEN {FALSE} ELSE MayFail
\* the failures counted after a call that ended ok (TRUE) or not
Counted(ok) == IF mode = "flaky" /\ ~ok THEN faults + 1 ELSE faults

(***************************************************************************)
(* Connections in use: in the free-list, or held in a context's local.     *)
(***************************************************************************)
Held == {client[p] : p \in Procs} \ {None}
Referenced == (Range(clients) \cup Held) \ {None}
FreeIds == Conns \ Referenced
NewConn == CHOOSE c \in FreeIds : \A d \in FreeIds : c <= d

(***************************************************************************)
(* ObservedDict.__setitem__: oldval is the stored value, or None for a new *)
(* key; the key is recorded when "not oldval or oldval != value".          *)
(***************************************************************************)
Falsy(v) == v \in {"", "int:0"}
Put(d, item, value) == [k \in DOMAIN d \cup {item} |-> IF k = item THEN value ELSE d[k]]
\* variant: every write records its key
Recorded_always(d, item, value) == TRUE
\* variant: a key is recorded on strict inequality only
Recorded_strict(d, item, value) == item \notin DOMAIN d \/ d[item] # value
Recorded(d, item, value) == IF item \in DOMAIN d
                            THEN Falsy(d[item]) \/ d[item] # value
                            ELSE TRUE
SetItemChanges(d, ch, item, value) == IF Recorded(d, item, value) THEN Put(ch, item, value) ELSE ch
\* What the drain is compared with: the writes that changed the value of a
\* key (a new key counts), and the writes over a stored falsy value.
Differs(d, item, value) == item \notin DOMAIN d \/ d[item] # value
OverFalsy(d, item) == item \in DOMAIN d /\ Falsy(d[item])
NoWrites == [changed |-> {}, falsy |-> {}]
Noted(w, d, item, value) ==
    [changed |-> IF Differs(d, item, value) THEN w.changed \cup {item} ELSE w.changed,
     falsy   |-> IF OverFalsy(d, item) THEN w.falsy \cup {item} ELSE w.falsy]

(***************************************************************************)
(* MpdClientPool.acquire, for context p.                                   *)
(***************************************************************************)
\* lines 80-83: client = None; tries = 10; timeout = 5
EnterAcquire(p, from) ==
    /\ pc' = [pc EXCEPT ![p] = "acq_loop"]
    /\ site' = [site EXCEPT ![p] = from]
    /\ client' = [client EXCEPT ![p] = None]
    /\ tries' = [tries EXCEPT ![p] = Tries]
    /\ attempts' = [attempts EXCEPT ![p] = 0]
    /\ probed' = [probed EXCEPT ![p] = None]
    /\ exc' = [exc EXCEPT ![p] = "none"]

\* variant: the deque is not looked at, every candidate is a new connection
AcquireLoop_alwaysCreate(p) ==
    /\ pc["watcher"] # "exited"
    /\ pc[p] = "acq_loop"
    /\ pc' = [pc EXCEPT ![p] =
                IF client[p] = None /\ tries[p] # 0 THEN "acq_create" ELSE "acq_done"]
    /\ UNCHANGED <<poolVars, obsVars, backendVars, cmdVars, snapVars>>
    /\ UNCHANGED <<site, client, tries, attempts, probed, exc, reply>>

\* line 85 and line 87: the loop's test, then the test of the deque
AcquireLoop(p) ==
    /\ pc["watcher"] # "exited"
    /\ pc[p] = "acq_loop"
    /\ pc' = [pc EXCEPT ![p] =
                IF client[p] = None /\ tries[p] # 0
                THEN (IF clients # <<>> THEN "acq_pop" ELSE "acq_create")
                ELSE "acq_done"]
    /\ UNCHANGED <<poolVars, obsVars, backendVars, cmdVars, snapVars>>
    /\ UNCHANGED <<site, client, tries, attempts, probed, exc, reply>>

\* line 94: client.ping(), on the candidate c just obtained; a None
\* popped from the deque has no ping.  The loop's test (line 85) ends the
\* loop after a ping that succeeded.
Ping(p, c) ==
    IF c = None
    THEN /\ exc' = [exc EXCEPT ![p] = "AttributeError"]
         /\ pc' = [pc EXCEPT ![p] = "acq_except"]
         /\ UNCHANGED <<probed, faults>>
    ELSE \E ok \in PingOutcomes :
           /\ faults' = Counted(ok)
           /\ IF ok
              THEN /\ probed' = [probed EXCEPT ![p] = c]
                   /\ pc' = [pc EXCEPT ![p] = "acq_done"]
                   /\ UNCHANGED exc
              ELSE /\ exc' = [exc EXCEPT ![p] = "ConnectionError"]
                   /\ pc' = [pc EXCEPT ![p] = "acq_except"]
                   /\ UNCHANGED probed

\* variant: the candidate is read from the right end of the deque and is
\* left in it
AcquirePop_peek(p) ==
    /\ pc["watcher"] # "exited"
    /\ pc[p] = "acq_pop"
    /\ attempts' = [attempts EXCEPT ![p] = @ + 1]
    /\ IF clients = <<>>
       THEN /\ exc' = [exc EXCEPT ![p] = "IndexError"]
            /\ pc' = [pc EXCEPT ![p] = "acq_except"]
            /\ UNCHANGED <<client, probed, faults>>
       ELSE /\ client' = [client EXCEPT ![p] = clients[Len(clients)]]
            /\ Ping(p, clients[Len(clients)])
    /\ UNCHANGED <<mode, obsVars, clients, closed, idleFlags, backendVars, cmdVars, snapVars>>
    /\ UNCHANGED <<site, tries, reply>>

\* lines 89 and 94: client = self.clients.pop(), IndexError on an empty
\* deque; then the ping
AcquirePop(p) ==
    /\ pc["watcher"] # "exited"
    /\ pc[p] = "acq_pop"
    /\ attempts' = [attempts EXCEPT ![p] = @ + 1]
    /\ IF clients = <<>>
       THEN /\ exc' = [exc EXCEPT ![p] = "IndexError"]
            /\ pc' = [pc EXCEPT ![p] = "acq_except"]
            /\ UNCHANGED <<clients, client, probed, faults>>
       ELSE /\ client' = [client EXCEPT ![p] = clients[Len(clients)]]
            /\ clients' = SubSeq(clients, 1, Len(clients) - 1)
            /\ Ping(p, clients[Len(clients)])
    /\ UNCHANGED <<mode, obsVars, closed, idleFlags, backendVars, cmdVars, snapVars>>
    /\ UNCHANGED <<site, tries, reply>>

\* lines 92 and 68-77: client = self._create_client(); then the ping
AcquireCreate(p) ==
    /\ pc["watcher"] # "exited"
    /\ pc[p] = "acq_create"
    /\ FreeIds # {}
    /\ attempts' = [attempts EXCEPT ![p] = @ + 1]
    /\ \/ /\ TRUE \in ConnectOutcomes
          /\ client' = [client EXCEPT ![p] = NewConn]
          /\ Ping(p, NewConn)
       \/ /\ FALSE \in ConnectOutcomes
          /\ faults' = Counted(FALSE)
          /\ exc' = [exc EXCEPT ![p] = "ConnectionError"]
          /\ pc' = [pc EXCEPT ![p] = "acq_except"]
          /\ UNCHANGED <<client, probed>>
    /\ UNCHANGED <<mode, obsVars, clients, closed, idleFlags, backendVars, cmdVars, snapVars>>
    /\ UNCHANGED <<site, tries, reply>>

\* variant: the handler disconnects the candidate and keeps it in client,
\* so that the loop's test ends the loop with it
AcquireExcept_keep(p) ==
    /\ pc["watcher"] # "exited"
    /\ pc[p] = "acq_except"
    /\ IF client[p] = None
       THEN /\ exc' = [exc EXCEPT ![p] = "AttributeError"]
            /\ pc' = [pc EXCEPT ![p] = "acq_raised"]
            /\ UNCHANGED <<tries, closed, idleFlags>>
       ELSE /\ closed' = closed \cup {client[p]}
            /\ idleFlags' = idleFlags \ {client[p]}
            /\ exc' = [exc EXCEPT ![p] = "none"]
            /\ pc' = [pc EXCEPT ![p] = "acq_loop"]
            /\ IF clients = <<>>
               THEN tries' = [tries EXCEPT ![p] = @ - 1]
               ELSE UNCHANGED tries
    /\ UNCHANGED <<mode, obsVars, clients, faults, backendVars, cmdVars, snapVars>>
    /\ UNCHANGED <<site, client, attempts, probed, reply>>

\* lines 96-109: the handler.  client.disconnect() on None raises an
\* AttributeError that nothing in acquire() catches.  The test of line 106
\* is never true here: the loop is entered only with tries # 0.
AcquireExcept(p) ==
    /\ pc["watcher"] # "exited"
    /\ pc[p] = "acq_except"
    /\ IF client[p] = None
       THEN /\ exc' = [exc EXCEPT ![p] = "AttributeError"]
            /\ pc' = [pc EXCEPT ![p] = "acq_raised"]
            /\ UNCHANGED <<client, tries, closed, idleFlags>>
       ELSE /\ client' = [client EXCEPT ![p] = None]
            /\ closed' = {c \in closed \cup {client[p]} :
                             c \in Range(clients) \/ \E q \in Procs : client'[q] = c}
            /\ idleFlags' = idleFlags \ {client[p]}
            /\ IF clients = <<>>
               THEN IF tries[p] = 0
                    THEN /\ pc' = [pc EXCEPT ![p] = "acq_raised"]
                         /\ UNCHANGED <<tries, exc>>
                    ELSE /\ tries' = [tries EXCEPT ![p] = @ - 1]
                         /\ exc' = [exc EXCEPT ![p] = "none"]
                         /\ pc' = [pc EXCEPT ![p] = "acq_loop"]
               ELSE /\ exc' = [exc EXCEPT ![p] = "none"]
                    /\ pc' = [pc EXCEPT ![p] = "acq_loop"]
                    /\ UNCHANGED tries
    /\ UNCHANGED <<mode, obsVars, clients, faults, backendVars, cmdVars, snapVars>>
    /\ UNCHANGED <<site, attempts, probed, reply>>

\* time.sleep(timeout) calls made so far by the current acquire() call,
\* and the seconds they take
Sleeps(p) == Tries - tries[p]
SleepSeconds(p) == Timeout * Sleeps(p)

\* lines 115-116: self.clients.append(client)
Drop(c) == Append(clients, c)

\* the caller has taken acquire()'s result: its locals are gone
LeaveAcquire(p) ==
    /\ tries' = [tries EXCEPT ![p] = Tries]
    /\ attempts' = [attempts EXCEPT ![p] = 0]

AcquireNext == \E p \in Procs :
    \/ AcquireLoop(p)
    \/ AcquirePop(p)
    \/ AcquireCreate(p)
    \/ AcquireExcept(p)

(***************************************************************************)
(* The backend's control calls and what they do to the player.  A call     *)
(* that changes something flags every connected client for its next        *)
(* idle(): MPD keeps the flags per client until that client waits.         *)
(***************************************************************************)
\* status() of a stopped player: MPD reports no elapsed time then
Stopped == [state |-> "stop", single |-> "0", volume |-> "100", repeat |-> "0",
            random |-> "0"]
StatusWith(k, v) == [mpdStatus EXCEPT ![k] = v]
OtherSong(t) == IF t = "A" THEN "B" ELSE "A"
StatusAfter(call, vol) ==
    CASE call = "single0" -> StatusWith("single", "0")
      [] call = "single1" -> StatusWith("single", "1")
      [] call = "play"    -> StatusWith("state", "play")
      [] call = "playid"  -> StatusWith("state", "play")
      [] call = "stop"    -> StatusWith("state", "stop")
      [] call = "pause"   -> StatusWith("state",
                                 IF mpdStatus["state"] = "play" THEN "pause"
                                 ELSE IF mpdStatus["state"] = "pause" THEN "play"
                                 ELSE "stop")
      [] call = "setvol"  -> StatusWith("volume", vol)
      [] OTHER            -> mpdStatus
SongOf(t) == [title |-> t, artist |-> "X", file |-> t \o ".mp3", date |-> "2001"]
SongAfter(call) ==
    CASE call = "next"   -> SongOf(OtherSong(mpdSong["title"]))
      [] call = "playid" -> SongOf("B")
      [] OTHER           -> mpdSong
BackendCall(call, vol) ==
    /\ mpdStatus' = StatusAfter(call, vol)
    /\ mpdSong' = SongAfter(call)
    /\ idleFlags' = IF StatusAfter(call, vol) # mpdStatus \/ SongAfter(call) # mpdSong
                    THEN Referenced ELSE idleFlags

(***************************************************************************)
(* int(volume) of cmd_volume, on the payload's characters, and the         *)
(* backend's rendering of a volume in its status report.                   *)
(***************************************************************************)
DigitChars == <<"0", "1", "2", "3", "4", "5", "6", "7", "8", "9">>
IsDigit(ch) == \E i \in 1..Len(DigitChars) : DigitChars[i] = ch
DigitVal(ch) == (CHOOSE i \in 1..Len(DigitChars) : DigitChars[i] = ch) - 1
Unsigned(s) == IF s # <<>> /\ s[1] \in {"+", "-"} THEN Tail(s) ELSE s
IsInt(s) == /\ Unsigned(s) # <<>>
            /\ \A i \in 1..Len(Unsigned(s)) : IsDigit(Unsigned(s)[i])
RECURSIVE Magnitude(_)
Magnitude(s) == IF s = <<>> THEN 0
                ELSE 10 * Magnitude(SubSeq(s, 1, Len(s) - 1)) + DigitVal(s[Len(s)])
ParseInt(s) == IF s[1] = "-" THEN 0 - Magnitude(Unsigned(s)) ELSE Magnitude(Unsigned(s))
RECURSIVE ToStr(_)
ToStr(n) == IF n < 10 THEN DigitChars[n + 1]
            ELSE ToStr(n \div 10) \o DigitChars[(n % 10) + 1]
Payloads == {<<"5", "7">>, <<"-", "5">>, <<"a", "b", "c">>}

(***************************************************************************)
(* Writing a backend reply into a snapshot: "for name, val in items:       *)
(* self.status[name] = val", one __setitem__ per reported attribute.       *)
(***************************************************************************)
RECURSIVE StoreAll(_, _, _)
StoreAll(d, ch, items) ==
    IF DOMAIN items = {} THEN <<d, ch>>
    ELSE LET k == CHOOSE x \in DOMAIN items : TRUE
             rest == [j \in DOMAIN items \ {k} |-> items[j]]
         IN  StoreAll(Put(d, k, items[k]), SetItemChanges(d, ch, k, items[k]), rest)
NotedAll(w, d, items) ==
    [changed |-> w.changed \cup {k \in DOMAIN items : Differs(d, k, items[k])},
     falsy   |-> w.falsy \cup {k \in DOMAIN items : OverFalsy(d, k)}]

(***************************************************************************)
(* MpdHandler._dispatch_change_events and the emit_* it calls: the events, *)
(* in the order of the code.  An emit that reads an absent attribute       *)
(* raises KeyError.                                                        *)
(***************************************************************************)
SongKeys == {"album", "artist", "file", "time", "title", "track"}
\* variant: the song event carries the whole snapshot
EmitSong_all(sg) == [name |-> "SongChanged", value |-> sg]
EmitSong(sg) == [name |-> "SongChanged",
                 value |-> [k \in DOMAIN sg \cap SongKeys |-> sg[k]]]
Emit(name, st, keys) == IF keys \subseteq DOMAIN st
                        THEN <<[name |-> name, value |-> [k \in keys |-> st[k]]]>>
                        ELSE <<[name |-> "KeyError", value |-> Empty]>>
When(cond, evs) == IF cond THEN evs ELSE <<>>
\* variant: the state event is emitted before the song event
Dispatch_stateFirst(st, sg, stCh, sgCh) ==
       When("state" \in DOMAIN stCh, Emit("PlaybackStateChanged", st, {"state"}))
    \o When(DOMAIN sgCh \cap {"artist", "title", "album"} # {}, <<EmitSong(sg)>>)
    \o When("elapsed" \in DOMAIN stCh, Emit("ElapsedChanged", st, {"elapsed"}))
    \o When("volume" \in DOMAIN stCh, Emit("VolumeChanged", st, {"volume"}))
    \o When(DOMAIN stCh \cap {"repeat", "random"} # {},
            Emit("PlayModeChanged", st, {"repeat", "random"}))
    \o When("single" \in DOMAIN stCh, Emit("SingleModeChanged", st, {"single"}))
Dispatch(st, sg, stCh, sgCh) ==
       When(DOMAIN sgCh \cap {"artist", "title", "album"} # {}, <<EmitSong(sg)>>)
    \o When("state" \in DOMAIN stCh, Emit("PlaybackStateChanged", st, {"state"}))
    \o When("elapsed" \in DOMAIN stCh, Emit("ElapsedChanged", st, {"elapsed"}))
    \o When("volume" \in DOMAIN stCh, Emit("VolumeChanged", st, {"volume"}))
    \o When(DOMAIN stCh \cap {"repeat", "random"} # {},
            Emit("PlayModeChanged", st, {"repeat", "random"}))
    \o When("single" \in DOMAIN stCh, Emit("SingleModeChanged", st, {"single"}))
\* The events up to and including the first emit that raises.
RECURSIVE UntilError(_)
UntilError(evs) == IF evs = <<>> THEN <<>>
                   ELSE IF Head(evs).name = "KeyError" THEN <<Head(evs)>>
                   ELSE <<Head(evs)>> \o UntilError(Tail(evs))
Raises(evs) == \E i \in 1..Len(evs) : evs[i].name = "KeyError"
\* _check_updates, lines 252-253
CheckDispatch(st, sg, stCh, sgCh) ==
    IF DOMAIN stCh # {} \/ DOMAIN sgCh # {}
    THEN UntilError(Dispatch(st, sg, stCh, sgCh)) ELSE <<>>

(***************************************************************************)
(* The watcher context: main(), then MpdHandler.watch.  An exception that  *)
(* leaves watch() ends the main thread, and with it the process.           *)
(***************************************************************************)
W == "watcher"
C == "command"
Running == pc[W] # "exited"

\* an exception leaves the frame of context p: its locals are gone, and a
\* connection it held is neither dropped nor disconnected
Unwind(p, e) ==
    /\ exc' = [exc EXCEPT ![p] = e]
    /\ client' = [client EXCEPT ![p] = None]
    /\ probed' = [probed EXCEPT ![p] = None]
    /\ idleFlags' = idleFlags \ {client[p]}
    /\ LeaveAcquire(p)
    /\ UNCHANGED site

Exit(e) ==
    /\ pc' = [pc EXCEPT ![W] = "exited"]
    /\ Unwind(W, e)

\* variant: watch() begins with the acquire() for idle(), not with a refresh
MainStart_waitFirst ==
    /\ pc[W] = "acq_done" /\ site[W] = "main"
    /\ IF client[W] = None
       THEN Exit("AttributeError") /\ UNCHANGED <<clients, faults>>
       ELSE \E ok \in CallOutcomes :
              /\ faults' = Counted(ok)
              /\ IF ok
                 THEN /\ clients' = Drop(client[W])
                      /\ EnterAcquire(W, "idle")
                      /\ UNCHANGED idleFlags
                 ELSE Exit("MPDError") /\ UNCHANGED clients
    /\ UNCHANGED <<mode, obsVars, closed, backendVars, cmdVars, snapVars, reply>>

\* lines 381-397: main() uses its first connection, returns it, builds
\* the handlers and enters watch(), whose first statement is a refresh.
MainStart ==
    /\ pc[W] = "acq_done" /\ site[W] = "main"
    /\ IF client[W] = None
       THEN Exit("AttributeError") /\ UNCHANGED <<clients, faults>>
       ELSE \E ok \in CallOutcomes :
              /\ faults' = Counted(ok)
              /\ IF ok
                 THEN /\ clients' = Drop(client[W])
                      /\ EnterAcquire(W, "status")
                      /\ UNCHANGED idleFlags
                 ELSE Exit("MPDError") /\ UNCHANGED clients
    /\ UNCHANGED <<mode, obsVars, closed, backendVars, cmdVars, snapVars, reply>>

\* a raise of acquire() reaches no handler: lines 239, 256 and 263 are
\* outside every try
WatcherRaise ==
    /\ pc[W] = "acq_raised"
    /\ Exit(exc[W])
    /\ UNCHANGED <<mode, obsVars, clients, closed, faults, backendVars, cmdVars, snapVars, reply>>

\* line 257: st_py = mpd_client.status()
UpdateStatusCall ==
    /\ pc[W] = "acq_done" /\ site[W] = "status"
    /\ IF client[W] = None
       THEN Exit("AttributeError") /\ UNCHANGED <<reply, faults>>
       ELSE \E ok \in CallOutcomes :
              /\ faults' = Counted(ok)
              /\ IF ok
                 THEN /\ reply' = mpdStatus
                      /\ pc' = [pc EXCEPT ![W] = "status_drop"]
                      /\ LeaveAcquire(W)
                      /\ UNCHANGED <<site, client, probed, exc, idleFlags>>
                 ELSE Exit("MPDError") /\ UNCHANGED reply
    /\ UNCHANGED <<mode, obsVars, clients, closed, backendVars, cmdVars, snapVars>>

\* lines 258-260 and 248: drop, store the reply, drain the changes; then
\* line 263, the acquire() of _update_song
UpdateStatusDrop ==
    /\ pc[W] = "status_drop"
    /\ clients' = Drop(client[W])
    /\ status' = StoreAll(status, statusChanges, reply)[1]
    /\ drained' = StoreAll(status, statusChanges, reply)[2]
    /\ statusChanges' = Empty
    /\ expected' = NotedAll(written, status, reply)
    /\ written' = NoWrites
    /\ reply' = Empty
    /\ EnterAcquire(W, "song")
    /\ UNCHANGED <<mode, obsVars, closed, faults, idleFlags, backendVars, cmdVars>>
    /\ UNCHANGED <<song, songChanges, songDrained, songNoted, emitted>>

\* line 264: song_py = mpd_client.currentsong()
UpdateSongCall ==
    /\ pc[W] = "acq_done" /\ site[W] = "song"
    /\ IF client[W] = None
       THEN Exit("AttributeError") /\ UNCHANGED <<reply, faults>>
       ELSE \E ok \in CallOutcomes :
              /\ faults' = Counted(ok)
              /\ IF ok
                 THEN /\ reply' = mpdSong
                      /\ pc' = [pc EXCEPT ![W] = "song_drop"]
                      /\ LeaveAcquire(W)
                      /\ UNCHANGED <<site, client, probed, exc, idleFlags>>
                 ELSE Exit("MPDError") /\ UNCHANGED reply
    /\ UNCHANGED <<mode, obsVars, clients, closed, backendVars, cmdVars, snapVars>>

\* lines 265-267, 250 and 252-253: drop, store, drain, dispatch; then
\* line 239, the acquire() for the wait.  A KeyError of an emit leaves
\* watch().
UpdateSongDrop ==
    /\ pc[W] = "song_drop"
    /\ clients' = Drop(client[W])
    /\ song' = StoreAll(song, songChanges, reply)[1]
    /\ songChanges' = Empty
    /\ reply' = Empty
    /\ LET songCh == StoreAll(song, songChanges, reply)[2]
           evs == CheckDispatch(status, song', drained, songCh)
       IN  /\ emitted' = evs
           /\ IF Raises(evs)
              THEN /\ pc' = [pc EXCEPT ![W] = "exited"]
                   /\ exc' = [exc EXCEPT ![W] = "KeyError"]
                   /\ client' = [client EXCEPT ![W] = None]
                   /\ probed' = [probed EXCEPT ![W] = None]
                   /\ UNCHANGED <<site, tries, attempts, waited>>
              ELSE EnterAcquire(W, "idle") /\ waited' = TRUE
    /\ songDrained' = StoreAll(song, songChanges, reply)[2]
    /\ songNoted' = NotedAll(NoWrites, song, reply)
    /\ UNCHANGED <<mode, closed, faults, idleFlags, backendVars, cmdVars>>
    /\ UNCHANGED <<published, issued, outcome>>
    /\ UNCHANGED <<status, statusChanges, drained, written, expected>>

\* lines 240-243: subsystems = mpd_client.idle() inside try/except.  The
\* call returns once MPD holds a change for this connection; a broken
\* connection, or a None in place of one, raises, and the raise is caught.
WatchIdle ==
    /\ pc[W] = "acq_done" /\ site[W] = "idle"
    /\ \/ client[W] = None /\ UNCHANGED <<idleFlags, faults>>
       \/ /\ client[W] \in idleFlags
          /\ TRUE \in CallOutcomes
          /\ idleFlags' = idleFlags \ {client[W]}
          /\ UNCHANGED faults
       \/ /\ client[W] # None
          /\ FALSE \in CallOutcomes
          /\ faults' = Counted(FALSE)
          /\ UNCHANGED idleFlags
    /\ pc' = [pc EXCEPT ![W] = "idle_drop"]
    /\ LeaveAcquire(W)
    /\ UNCHANGED <<mode, obsVars, clients, closed, backendVars, cmdVars, snapVars>>
    /\ UNCHANGED <<site, client, probed, exc, reply>>

\* line 244, then line 237 and line 256: drop whatever acquire() gave,
\* and start the next refresh
WatchDrop ==
    /\ pc[W] = "idle_drop"
    /\ clients' = Drop(client[W])
    /\ EnterAcquire(W, "status")
    /\ UNCHANGED <<mode, obsVars, closed, faults, idleFlags>>
    /\ UNCHANGED <<backendVars, cmdVars, snapVars, reply>>

(***************************************************************************)
(* The command context: MqttHandler._dispatch_command_mqtt_cb and          *)
(* _volume_mqtt_cb, calling MpdHandler.cmd_play .. cmd_fav.  An exception  *)
(* that leaves a handler ends that callback without the drop.              *)
(***************************************************************************)
Commands == {"play", "pause", "stop", "stop after", "next", "fav", "volume"}
CallOf(c, n) ==
    CASE c = "play"       -> IF n = 1 THEN "single0" ELSE "play"
      [] c = "pause"      -> "pause"
      [] c = "stop"       -> "stop"
      [] c = "stop after" -> "single1"
      [] c = "next"       -> "next"
      [] c = "volume"     -> "setvol"
      [] c = "fav"        -> IF n = 1 THEN "playlistfind" ELSE "playid"

Abort(e) ==
    /\ pc' = [pc EXCEPT ![C] = "ready"]
    /\ Unwind(C, "none")
    /\ cmd' = "none"
    /\ payload' = <<>>
    /\ issued' = <<>>
    /\ outcome' = e

\* variant: cmd_volume acquires its connection before it parses the payload
CmdArrive_acquireFirst ==
    /\ Running
    /\ pc[C] = "ready" /\ site[W] # "main"
    /\ cmdCount < MaxCmds
    /\ cmdCount' = cmdCount + 1
    /\ \E c \in Commands, pl \in Payloads :
         IF c = "fav" /\ ~favNeedle
         THEN /\ outcome' = "done"
              /\ UNCHANGED <<ctxVars, cmd, payload>>
         ELSE /\ cmd' = c
              /\ payload' = IF c = "volume" THEN pl ELSE <<>>
              /\ outcome' = "none"
              /\ EnterAcquire(C, "cmd")
              /\ UNCHANGED reply
    /\ issued' = <<>>
    /\ UNCHANGED <<poolVars, backendVars, favNeedle, snapVars, waited, published>>

\* lines 329-348 and the first statements of the cmd_ handlers: the
\* subscriptions exist once main() has built the MqttHandler (line 395)
CmdArrive ==
    /\ Running
    /\ pc[C] = "ready" /\ site[W] # "main"
    /\ cmdCount < MaxCmds
    /\ cmdCount' = cmdCount + 1
    /\ \E c \in Commands, pl \in Payloads :
         IF (c = "volume" /\ ~IsInt(pl)) \/ (c = "fav" /\ ~favNeedle)
         THEN /\ outcome' = IF c = "volume" THEN "ValueError" ELSE "done"
              /\ UNCHANGED <<ctxVars, cmd, payload>>
         ELSE /\ cmd' = c
              /\ payload' = IF c = "volume" THEN pl ELSE <<>>
              /\ outcome' = "none"
              /\ EnterAcquire(C, "cmd")
              /\ UNCHANGED reply
    /\ issued' = <<>>
    /\ UNCHANGED <<poolVars, backendVars, favNeedle, snapVars, waited, published>>

\* the backend calls of the handler, lines 153-154, 159, 164, 169, 174,
\* 182, 192-195
CmdCall ==
    /\ Running
    /\ \/ pc[C] = "acq_done" /\ site[C] = "cmd"
       \/ pc[C] = "call2"
    /\ LET n == IF pc[C] = "call2" THEN 2 ELSE 1
           call == CallOf(cmd, n)
           vol == IF cmd = "volume" THEN ParseInt(payload) ELSE 0
       IN  IF client[C] = None
           THEN Abort("AttributeError") /\ UNCHANGED <<backendVars, faults>>
           ELSE \E ok \in CallOutcomes, found \in BOOLEAN :
                  /\ faults' = Counted(ok)
                  /\ IF ok /\ (call = "setvol" => vol \in 0..100)
                     THEN /\ BackendCall(call, ToStr(vol))
                          /\ issued' = Append(issued, <<call, vol>>)
                          /\ UNCHANGED outcome
                          /\ pc' = [pc EXCEPT ![C] =
                                      IF n = 1 /\ (cmd = "play" \/ (cmd = "fav" /\ found))
                                      THEN "call2" ELSE "cmd_drop"]
                          /\ LeaveAcquire(C)
                          /\ UNCHANGED <<site, client, probed, exc>>
                          /\ UNCHANGED <<cmd, payload>>
                     ELSE Abort("MPDError") /\ UNCHANGED backendVars
    /\ UNCHANGED <<mode, clients, closed, cmdCount, favNeedle, snapVars, reply>>
    /\ UNCHANGED <<waited, published>>

\* the handler's last statement: self.mpd_pool.drop(mpd_client)
CmdDrop ==
    /\ Running
    /\ pc[C] = "cmd_drop"
    /\ clients' = Drop(client[C])
    /\ pc' = [pc EXCEPT ![C] = "ready"]
    /\ client' = [client EXCEPT ![C] = None]
    /\ probed' = [probed EXCEPT ![C] = None]
    /\ cmd' = "none"
    /\ payload' = <<>>
    /\ issued' = <<>>
    /\ outcome' = "done"
    /\ UNCHANGED <<mode, closed, faults, idleFlags, waited, published>>
    /\ UNCHANGED <<backendVars, cmdCount, favNeedle, snapVars>>
    /\ UNCHANGED <<site, tries, attempts, exc, reply>>

\* a raise of acquire() in a handler: cmd_volume catches ValueError only
CmdRaise ==
    /\ Running
    /\ pc[C] = "acq_raised"
    /\ Abort(exc[C])
    /\ UNCHANGED <<mode, clients, closed, faults, backendVars>>
    /\ UNCHANGED <<cmdCount, favNeedle, snapVars, reply, waited, published>>

\* lines 329-343 and 350-357: the query command emits the current value of
\* every event kind from the snapshots, in this order; it uses no
\* connection.  An emit that raises ends the callback.
QueryEmits(st, sg) ==
       <<EmitSong(sg)>>
    \o Emit("PlaybackStateChanged", st, {"state"})
    \o Emit("ElapsedChanged", st, {"elapsed"})
    \o Emit("VolumeChanged", st, {"volume"})
    \o Emit("PlayModeChanged", st, {"repeat", "random"})
    \o Emit("SingleModeChanged", st, {"single"})

CmdQuery ==
    /\ Running
    /\ pc[C] = "ready" /\ site[W] # "main"
    /\ published' = UntilError(QueryEmits(status, song))
    /\ outcome' = IF Raises(QueryEmits(status, song)) THEN "KeyError" ELSE "done"
    /\ UNCHANGED <<poolVars, backendVars, ctxVars, cmdVars, snapVars, waited, issued>>

(***************************************************************************)
(* The player changes on its own or by another client: what status() and   *)
(* currentsong() report next, and every connected client is flagged for    *)
(* its next idle().                                                        *)
(***************************************************************************)
Playing == Put(Put(Stopped, "state", "play"), "elapsed", "1")
StatusReports == {Stopped, Playing}
\* no current song, a song with an empty title tag, a song with a title
SongReports == {Empty} \cup {SongOf(t) : t \in {"", "A"}}

BackendEvent ==
    /\ Running
    /\ mpdStatus' \in StatusReports
    /\ mpdSong' \in SongReports
    /\ idleFlags' = Referenced
    /\ UNCHANGED <<mode, clients, closed, faults, ctxVars, cmdVars, snapVars, obsVars>>

(***************************************************************************)
(* ObservedDict on its own: any write, any drain.                          *)
(***************************************************************************)
DictKeys == {"state", "volume"}
DictValues == {"", "int:0", "play", "stop"}

\* lines 46-52
SetItem(item, value) ==
    /\ statusChanges' = SetItemChanges(status, statusChanges, item, value)
    /\ status' = Put(status, item, value)
    /\ written' = Noted(written, status, item, value)
    /\ UNCHANGED <<drained, expected>>

\* lines 54-57
GetChanges ==
    /\ drained' = statusChanges
    /\ statusChanges' = Empty
    /\ expected' = written
    /\ written' = NoWrites
    /\ UNCHANGED status

DictWrite ==
    /\ \E k \in DictKeys, v \in DictValues : SetItem(k, v)
    /\ UNCHANGED <<poolVars, obsVars, backendVars, ctxVars, cmdVars>>
    /\ UNCHANGED <<song, songChanges, songDrained, songNoted, emitted>>

DictDrain ==
    /\ GetChanges
    /\ UNCHANGED <<poolVars, obsVars, backendVars, ctxVars, cmdVars>>
    /\ UNCHANGED <<song, songChanges, songDrained, songNoted, emitted>>

(***************************************************************************)
(* Initial states and specifications.                                      *)
(***************************************************************************)
InitContexts ==
    /\ idleFlags = {}
    /\ closed = {}
    /\ faults = 0
    /\ mpdStatus = Stopped
    /\ mpdSong = SongOf("A")
    /\ client = [p \in Procs |-> None]
    /\ tries = [p \in Procs |-> Tries]
    /\ attempts = [p \in Procs |-> 0]
    /\ probed = [p \in Procs |-> None]
    /\ exc = [p \in Procs |-> "none"]
    /\ reply = Empty
    /\ cmd = "none"
    /\ payload = <<>>
    /\ cmdCount = 0
    /\ waited = FALSE
    /\ published = <<>>
    /\ issued = <<>>
    /\ outcome = "none"

\* lines 134-135: both snapshots are new
InitSnapshots ==
    /\ status = Empty
    /\ statusChanges = Empty
    /\ song = Empty
    /\ songChanges = Empty
    /\ drained = Empty
    /\ written = NoWrites
    /\ expected = NoWrites
    /\ songDrained = Empty
    /\ songNoted = NoWrites
    /\ emitted = <<>>

InitCommon == InitContexts /\ InitSnapshots

\* main() at line 381: the pool is new and empty, no handler exists yet
InitMain ==
    /\ InitCommon
    /\ clients = <<>>
    /\ pc = [p \in Procs |-> IF p = W THEN "acq_loop" ELSE "ready"]
    /\ site = [p \in Procs |-> IF p = W THEN "main" ELSE "cmd"]
    /\ favNeedle = TRUE

Init == InitMain /\ mode \in {"healthy", "flaky"}

WatcherNext ==
    \/ MainStart
    \/ WatcherRaise
    \/ UpdateStatusCall
    \/ UpdateStatusDrop
    \/ UpdateSongCall
    \/ UpdateSongDrop
    \/ WatchIdle
    \/ WatchDrop

CommandNext ==
    \/ CmdCall
    \/ CmdDrop
    \/ CmdRaise

Next ==
    \/ AcquireNext
    \/ WatcherNext
    \/ CmdArrive
    \/ CommandNext

Spec == Init /\ [][Next]_vars

\* The pool on its own: one caller enters acquire() on a pool that holds
\* k idle connections, against a backend on which every candidate fails.
InitAcquire ==
    /\ InitCommon
    /\ mode \in {"down_connect", "down_probe"}
    /\ \E k \in 0..MaxStale :
         clients = [i \in 1..k |-> i]
    /\ pc = [p \in Procs |-> IF p = W THEN "acq_loop" ELSE "ready"]
    /\ site = [p \in Procs |-> IF p = W THEN "status" ELSE "cmd"]
    /\ favNeedle = FALSE

AcquireSpec == InitAcquire /\ [][AcquireNext]_vars

\* ObservedDict on its own
InitDict ==
    /\ InitMain
    /\ mode = "healthy"

DictNext == DictWrite \/ DictDrain

DictSpec == InitDict /\ [][DictNext]_vars

\* A healthy backend and fair scheduling: each thread that can take a step
\* eventually takes one.  The arrival of a command is the bus's choice.
InitHealthy == InitMain /\ mode = "healthy"

WatcherStep ==
    \/ AcquireLoop(W) \/ AcquirePop(W) \/ AcquireCreate(W) \/ AcquireExcept(W)
    \/ WatcherNext

CommandStep ==
    \/ AcquireLoop(C) \/ AcquirePop(C) \/ AcquireCreate(C) \/ AcquireExcept(C)
    \/ CommandNext

FairSpec == InitHealthy /\ [][Next]_vars /\ WF_vars(WatcherStep) /\ WF_vars(CommandStep)

\* The watcher and the query command against a player that changes on its
\* own: no other command runs.
InitWatch ==
    /\ InitMain
    /\ mode = "healthy"

WatchNext ==
    \/ AcquireLoop(W)
    \/ AcquirePop(W)
    \/ AcquireCreate(W)
    \/ MainStart
    \/ UpdateStatusCall
    \/ UpdateStatusDrop
    \/ UpdateSongCall
    \/ UpdateSongDrop
    \/ WatchIdle
    \/ WatchDrop
    \/ BackendEvent
    \/ CmdQuery

WatchSpec == InitWatch /\ [][WatchNext]_vars

\* The backend may go down while the program runs: from then on connect()
\* is refused, or connect() succeeds and ping() and every other call fail.
BackendDown ==
    /\ Running
    /\ mode \in {"healthy", "flaky"}
    /\ mode' \in {"down_connect", "down_probe"}
    /\ UNCHANGED <<clients, closed, faults, idleFlags>>
    /\ UNCHANGED <<backendVars, ctxVars, cmdVars, snapVars, obsVars>>

OutageNext ==
    \/ Next
    \/ BackendDown

OutageSpec == Init /\ [][OutageNext]_vars

\* _dispatch_change_events on its own: any snapshots, any change sets
\* over the attributes they hold.
AlbumSong == [title |-> "X", artist |-> "Y", album |-> "Z", file |-> "f.mp3",
              time |-> "180", track |-> "3", date |-> "2001"]
Restrict(f, keys) == [k \in keys |-> f[k]]
ChangeSets(f) == {Restrict(f, keys) : keys \in SUBSET DOMAIN f}

InitDispatch ==
    /\ InitContexts
    /\ mode = "healthy"
    /\ clients = <<>>
    /\ pc = [p \in Procs |-> IF p = W THEN "song_drop" ELSE "ready"]
    /\ site = [p \in Procs |-> IF p = W THEN "song" ELSE "cmd"]
    /\ favNeedle = FALSE
    /\ status \in StatusReports
    /\ song \in {Empty, SongOf("A"), AlbumSong}
    /\ drained \in ChangeSets(status)
    /\ songDrained \in ChangeSets(song)
    /\ statusChanges = Empty /\ songChanges = Empty
    /\ written = NoWrites /\ expected = NoWrites /\ songNoted = NoWrites
    /\ emitted = <<>>

DispatchChanges ==
    /\ outcome = "none"
    /\ emitted' = UntilError(Dispatch(status, song, drained, songDrained))
    /\ outcome' = "dispatched"
    /\ UNCHANGED <<poolVars, backendVars, ctxVars, cmdVars, waited, published, issued>>
    /\ UNCHANGED <<status, statusChanges, song, songChanges, drained, written, expected>>
    /\ UNCHANGED <<songDrained, songNoted>>

DispatchSpec == InitDispatch /\ [][DispatchChanges]_vars

(***************************************************************************)
(* Properties.                                                             *)
(***************************************************************************)
Ended(p) == pc[p] \in {"acq_done", "acq_raised"}
\* context p holds the connection that acquire() returned to it
CheckedOut(p) == /\ client[p] # None
                 /\ pc[p] \in {"acq_done", "status_drop", "song_drop", "idle_drop",
                               "call2", "cmd_drop"}
NoDuplicates(q) == \A i, j \in 1..Len(q) : (i # j /\ q[i] # None) => q[i] # q[j]

\* C1: against a backend on which every candidate fails, acquire() ends by
\* raising the last connection error; it never returns without a connection.
C1_ExhaustedAcquireRaises ==
    \A p \in Procs :
        Ended(p) => (pc[p] = "acq_raised" /\ exc[p] = "ConnectionError")

\* C2: against a backend on which every candidate fails, one acquire() makes
\* exactly ten attempts with one five-second delay between consecutive
\* attempts, whatever the free-list held and whichever call fails.
C2_ExactlyTenAttempts ==
    \A p \in Procs :
        Ended(p) => (attempts[p] = Tries /\ SleepSeconds(p) = Timeout * (Tries - 1))

\* C3: in every interleaving of the watcher and the command context, no
\* connection is held by both, and the free-list holds no connection that
\* is checked out (nor one connection twice).
C3_NoSharedConnection ==
    /\ client[W] # None => client[W] # client[C]
    /\ \A p \in Procs : client[p] # None => client[p] \notin Range(clients)
    /\ NoDuplicates(clients)

C3_Witness ==
    /\ CheckedOut(W) /\ CheckedOut(C)
    /\ pc[W] = "acq_done" /\ pc[C] = "acq_done"

\* C4: with a healthy backend, two concurrent acquire() calls both return a
\* connection and neither raises.
C4_ConcurrentAcquireSucceeds ==
    mode = "healthy" =>
        \A p \in Procs : /\ pc[p] # "acq_raised"
                         /\ pc[p] = "acq_done" => client[p] # None

\* C5: no error of a backend call or of acquire() makes watch() exit.
C5_WatchNeverExits ==
    site[W] # "main" => pc[W] # "exited"

\* C6: a connection that a caller has checked out goes back to the free-list
\* when the caller is done with it, also when its backend call raised.
C6_CheckedOutIsReturned ==
    [][\A p \in Procs :
          (CheckedOut(p) /\ client'[p] = None) => client[p] \in Range(clients')]_vars

\* C7: a connection that acquire() returned passed ping() in that call and
\* is not in the free-list; a candidate whose ping() failed is disconnected
\* and is neither returned nor put back into the free-list.
C7_ReturnedIsProbed ==
    /\ \A p \in Procs :
         CheckedOut(p) => (probed[p] = client[p] /\ client[p] \notin Range(clients))
    /\ closed \cap Referenced = {}

C7_Witness ==
    \E p \in Procs : /\ CheckedOut(p) /\ pc[p] = "acq_done"
                     /\ attempts[p] >= 2 /\ faults >= 1

\* C8: the wait phase always leads back to a refresh: neither a raise of the
\* wait call nor a failed acquire() for the wait leaves the loop.
C8_WaitLeadsToRefresh ==
    ~(pc[W] = "exited" /\ site[W] = "idle")

\* C9: with a healthy backend and fair scheduling, a player state that a
\* command has set is eventually read into the status snapshot by a refresh
\* of the running watcher, unless the player state changes again first.
C9_ChangeEventuallyObserved ==
    \A b \in {"play", "pause"} :
        (mpdStatus["state"] = b)
            ~> \/ mpdStatus["state"] # b
               \/ "state" \in DOMAIN status /\ status["state"] = b
               \/ ~Running

\* C10 as stated: a drain returns exactly the keys that a write since the
\* previous drain set to a value different from the stored one, and a drain
\* right after a drain returns nothing.
C10_DrainIsChangedKeys ==
    /\ DOMAIN drained = expected.changed
    /\ DOMAIN statusChanges = written.changed

\* C10 as amended: a drain returns exactly the keys that a write since the
\* previous drain set to a different value or wrote over a stored falsy
\* value, and a drain right after a drain returns nothing.
C10_DrainIsRecordedKeys ==
    /\ DOMAIN drained = expected.changed \cup expected.falsy
    /\ DOMAIN statusChanges = written.changed \cup written.falsy

C10_Witness ==
    /\ expected.changed # {}
    /\ expected.falsy \ expected.changed # {}
    /\ written = NoWrites /\ statusChanges = Empty

\* the watcher has finished a _check_updates pass and has not begun the next
PassDone == Running /\ site[W] = "idle"
\* the keys a pass recorded for a reason: changed, or written over a falsy value
Rec(n) == n.changed \cup n.falsy
TriggerOf(name) ==
    CASE name = "SongChanged"          -> {"artist", "title", "album"}
      [] name = "PlaybackStateChanged" -> {"state"}
      [] name = "ElapsedChanged"       -> {"elapsed"}
      [] name = "VolumeChanged"        -> {"volume"}
      [] name = "PlayModeChanged"      -> {"repeat", "random"}
      [] name = "SingleModeChanged"    -> {"single"}
      [] OTHER                         -> {}
EventNames(evs) == {evs[i].name : i \in DOMAIN evs}

\* C11 as stated: a refresh pass in which no reported attribute differs
\* from the stored value drains nothing from either snapshot and emits no
\* event, and every event of a pass has a trigger attribute whose value
\* changed in that pass.
C11_UnchangedPassIsSilent ==
    PassDone =>
        /\ (expected.changed = {} /\ songNoted.changed = {})
              => (drained = Empty /\ songDrained = Empty /\ emitted = <<>>)
        /\ \A i \in DOMAIN emitted :
              TriggerOf(emitted[i].name) \cap (expected.changed \cup songNoted.changed) # {}

\* C11 as amended: a refresh pass in which no reported attribute differs
\* from the stored value and no stored value that is rewritten is falsy
\* drains nothing and emits no event, and every event of a pass has a
\* trigger attribute that changed or was written over a falsy value.
C11_UnchangedTruthyPassIsSilent ==
    PassDone =>
        /\ (Rec(expected) = {} /\ Rec(songNoted) = {})
              => (drained = Empty /\ songDrained = Empty /\ emitted = <<>>)
        /\ \A i \in DOMAIN emitted :
              TriggerOf(emitted[i].name) \cap (Rec(expected) \cup Rec(songNoted)) # {}

C11_Witness ==
    /\ PassDone /\ pc[W] = "acq_done"
    /\ Rec(expected) = {} /\ Rec(songNoted) = {}
    /\ status # Empty /\ song = SongOf("A")
    /\ emitted = <<>>

Order == <<"SongChanged", "PlaybackStateChanged", "ElapsedChanged", "VolumeChanged",
           "PlayModeChanged", "SingleModeChanged">>
Triggered(name) == IF name = "SongChanged"
                   THEN TriggerOf(name) \cap DOMAIN songDrained # {}
                   ELSE TriggerOf(name) \cap DOMAIN drained # {}

\* C12: for every pair of change sets the dispatcher emits the events whose
\* trigger holds, each once and no other, in the order song, state,
\* elapsed, volume, play mode, single mode; the status change set {state}
\* alone emits one PlaybackStateChanged with the stored state.
C12_DispatchIsTriggeredInOrder ==
    outcome = "dispatched" =>
        /\ [i \in DOMAIN emitted |-> emitted[i].name] = SelectSeq(Order, Triggered)
        /\ (DOMAIN drained = {"state"} /\ songDrained = Empty)
              => emitted = <<[name |-> "PlaybackStateChanged",
                              value |-> [state |-> status["state"]]]>>

C12_Witness ==
    /\ outcome = "dispatched"
    /\ Len(emitted) = Len(Order)

\* C13: until watch() first acquires a connection for idle() it has not
\* waited and runs one refresh pass on the new, empty snapshots; the step
\* that ends this pass has stored the reports, has emitted the events of a
\* change of every stored attribute, and enters that first acquire().
C13_OnePassBeforeFirstWait ==
    [][/\ ~waited => site[W] # "idle"
       /\ (~waited /\ pc[W] = "status_drop")
             => (status = Empty /\ song = Empty /\ emitted = <<>>)
       /\ (~waited /\ waited')
             => /\ status' # Empty
                /\ emitted' = UntilError(Dispatch(status', song', status', song'))
                /\ emitted' # <<>>
                /\ site'[W] = "idle" /\ pc'[W] = "acq_loop"]_vars

C13_Witness ==
    /\ waited /\ site[W] = "idle" /\ pc[W] = "acq_loop"
    /\ status # Empty /\ drained = status /\ songDrained = song
    /\ emitted # <<>>

\* C14: a query command raises nothing, whatever the snapshots hold; an
\* emit whose attribute is absent emits nothing, and every emit whose
\* attributes are present still emits its event.
C14_AbsentAttributeIsNoOp ==
    [][published' # published
         => /\ outcome' # "KeyError"
            /\ \A i \in DOMAIN published' : published'[i].name # "KeyError"
            /\ \A i \in 2..Len(Order) :
                  TriggerOf(Order[i]) \subseteq DOMAIN status
                      => Order[i] \in EventNames(published')]_vars

\* C15: a volume command whose payload is no integer ends with ValueError
\* reported, takes no connection, issues no backend call and leaves pool
\* and player as they were; a volume command that goes on has an integer
\* payload n and has issued the one call setvol(n) when it reaches its
\* drop; and a volume command that went on never ends as ValueError.
C15_VolumeIsParsedFirst ==
    [][/\ (outcome' = "ValueError" /\ cmdCount' # cmdCount)
             => /\ poolVars' = poolVars /\ backendVars' = backendVars
                /\ ctxVars' = ctxVars /\ issued' = <<>>
       /\ cmd = "volume" => (IsInt(payload) /\ Len(issued) <= 1)
       /\ (cmd = "volume" /\ pc[C] = "cmd_drop")
             => issued = << <<"setvol", ParseInt(payload)>> >>
       /\ (cmd = "volume" /\ cmd' # "volume") => outcome' \in {"done", "MPDError", "AttributeError"}]_vars

C15_Witness ==
    /\ outcome = "ValueError"
    /\ pc[C] = "ready" /\ cmdCount > 0
    /\ clients # <<>> /\ mpdStatus["volume"] = "100"

\* C16: the value of a SongChanged event, dispatched by a refresh pass or
\* emitted for a query, is the song snapshot of that moment restricted to
\* album, artist, file, time, title and track: each of these that the
\* snapshot holds, with its value, and no other attribute.
C16_SongPayloadIsWhitelisted ==
    [][/\ \A i \in DOMAIN published' :
             (published' # published /\ published'[i].name = "SongChanged")
                 => published'[i].value
                      = Restrict(song, DOMAIN song \cap {"album", "artist", "file", "time",
                                                          "title", "track"})
       /\ \A i \in DOMAIN emitted' :
             (pc[W] = "song_drop" /\ pc'[W] # "song_drop"
                 /\ emitted'[i].name = "SongChanged")
                 => emitted'[i].value
                      = Restrict(song', DOMAIN song' \cap {"album", "artist", "file", "time",
                                                            "title", "track"})]_vars

C16_Witness ==
    /\ "date" \in DOMAIN song
    /\ \E i \in DOMAIN published :
          /\ published[i].name = "SongChanged"
          /\ DOMAIN published[i].value = {"artist", "file", "title"}
    /\ \E i \in DOMAIN emitted :
          /\ emitted[i].name = "SongChanged"
          /\ DOMAIN emitted[i].value = {"artist", "file", "title"}

\* C17: after _update_status or _update_song has stored a report, the
\* snapshot holds only attributes of that report: an attribute that an
\* earlier report had and this one has not is absent.
C17_UnreportedAttributeIsAbsent ==
    [][/\ (pc[W] = "status_drop" /\ pc'[W] # "status_drop")
             => DOMAIN status' \subseteq DOMAIN reply
       /\ (pc[W] = "song_drop" /\ pc'[W] # "song_drop")
             => DOMAIN song' \subseteq DOMAIN reply]_vars

\* C18: in every refresh pass a key whose stored value was falsy when the
\* pass rewrote it is drained, also when the value written is equal; a key
\* that is drained without a change of its value had a falsy stored value
\* (an equal truthy value is not recorded); and a title that stays falsy
\* has its song event emitted in that pass.
C18_FalsyValueCountsAsChanged ==
    PassDone =>
        /\ expected.falsy \subseteq DOMAIN drained
        /\ songNoted.falsy \subseteq DOMAIN songDrained
        /\ DOMAIN drained \ expected.changed \subseteq expected.falsy
        /\ DOMAIN songDrained \ songNoted.changed \subseteq songNoted.falsy
        /\ "title" \in songNoted.falsy => "SongChanged" \in EventNames(emitted)

C18_Witness ==
    /\ PassDone
    /\ "title" \in songNoted.falsy \ songNoted.changed
    /\ "artist" \in DOMAIN song \ DOMAIN songDrained
    /\ EventNames(emitted) = {"SongChanged"}

\* C19: the free-list holds connections only: no None is ever appended to
\* it, whatever the backend does.
C19_FreeListHoldsConnections ==
    \A i \in DOMAIN clients : clients[i] # None

====
